---- MODULE Spec2Model ----
(***************************************************************************)
(* The order transaction core of the dairy-farm storefront:                *)
(*   POST /api/orders/create          (placeOrder)                         *)
(*   POST /api/orders/verify-payment  (verifyPayment)                      *)
(*   PUT  /api/orders/:id/cancel      (cancelOrder)                        *)
(*   PUT  /api/orders/admin/:id/status                                     *)
(* over the tables products, orders and order_items (MySQL / InnoDB).      *)
(*                                                                         *)
(* Each request is handled by a worker.  A handler that opens a            *)
(* transaction runs one SQL statement per step.  A plain SELECT is a       *)
(* non-locking read of committed rows; an UPDATE or INSERT takes an        *)
(* exclusive lock on the row, held until COMMIT or ROLLBACK; a statement   *)
(* that finds its row locked by another transaction waits, and may fail    *)
(* (lock wait timeout, deadlock victim), which lands in the handler's      *)
(* catch block.  A handler using executeQuery runs one autocommit          *)
(* statement.                                                              *)
(***************************************************************************)
EXTENDS Integers, Sequences, FiniteSets, TLC

\* ------------------------------------------------------------------ bounds
MaxQty == 2
MaxStock == 2

Workers == {1, 2}
Users == {1, 2}
Products == {1, 2}
\* a product_id with no row in products
MissingProduct == Cardinality(Products) + 1
OrderIds == {1, 2}

\* price in rupees of the first two sample products
PriceCowMilk == 60
PriceBuffaloMilk == 80
SamplePrice == [p \in Products |-> IF p = 1 THEN PriceCowMilk ELSE PriceBuffaloMilk]

PaymentIds == {"pay_A"}
KeySecret == "RAZORPAY_KEY_SECRET"
OtherKey == "not_the_secret"

OrderStatuses == {"placed", "confirmed", "processing", "shipped", "delivered", "cancelled"}

NoRow == [user_id |-> 0]
NoDelta == [p \in Products |-> 0]

VARIABLES
  products,     \* table products: product_id -> [price, stock, is_active], committed rows
  orders,       \* table orders: order_id -> row, NoRow where no committed row
  order_items,  \* table order_items: order_id -> sequence of [product_id, quantity, price]
  nextId,       \* AUTO_INCREMENT of orders.order_id
  rzp,          \* orders created at the payment gateway
  plock,        \* row locks on products: product_id -> worker, 0 when free
  olock,        \* row locks on orders: order_id -> worker, 0 when free
  pc,           \* each worker's position in its handler
  req,          \* each worker's request
  loc,          \* each worker's local variables and uncommitted writes
  res,          \* the last response sent
  hist          \* history: order_id -> the stock just before the order was committed

vars == <<products, orders, order_items, nextId, rzp, plock, olock, pc, req, loc, res, hist>>

\* ------------------------------------------------------------------ helpers

NoLocals == [i |-> 0, orderItems |-> <<>>, totalAmount |-> 0, orderId |-> 0,
             razorpayOrder |-> 0, delta |-> NoDelta]

NoReq == [op |-> "none"]
StockOf(prods) == [p \in Products |-> prods[p].stock]
NoRes == [status |-> 0, message |-> ""]

Response(s, m) == [status |-> s, message |-> m]

\* expectedSignature = createHmac('sha256', key).update(order_id + '|' + payment_id).digest('hex')
Hmac(key, razorpay_order_id, razorpay_payment_id) ==
  <<key, razorpay_order_id, razorpay_payment_id>>

\* connection.rollback() / the end of a transaction: every row lock of t is released
Release(lock, t) == [x \in DOMAIN lock |-> IF lock[x] = t THEN 0 ELSE lock[x]]

\* the handler has answered: the worker is free again, its uncommitted writes are gone
Finish(t, r) ==
  /\ pc' = [pc EXCEPT ![t] = "idle"]
  /\ loc' = [loc EXCEPT ![t] = NoLocals]
  /\ res' = r
  /\ req' = [req EXCEPT ![t] = NoReq]
  /\ plock' = Release(plock, t)
  /\ olock' = Release(olock, t)

\* await connection.rollback(); return res.status(..).json(..)
Rollback(t, r) ==
  /\ Finish(t, r)
  /\ UNCHANGED <<products, orders, order_items, nextId, rzp, hist>>

ServerError(t) ==
  IF req[t].op = "create" THEN Response(500, "Server error creating order")
  ELSE Response(500, "Server error cancelling order")

\* the committed stock with a transaction's own stock updates applied
ApplyDelta(d) ==
  [p \in Products |-> [products[p] EXCEPT !.stock = products[p].stock + d[p]]]

\* ------------------------------------------------------------------ Init
Init ==
  /\ products \in {[p \in Products |-> [price |-> SamplePrice[p], stock |-> s[p], is_active |-> TRUE]] :
                     s \in [Products -> 0..MaxStock]}
  /\ orders = [o \in OrderIds |-> NoRow]
  /\ order_items = [o \in OrderIds |-> <<>>]
  /\ nextId = 1
  /\ rzp = {}
  /\ plock = [p \in Products |-> 0]
  /\ olock = [o \in OrderIds |-> 0]
  /\ pc = [t \in Workers |-> "idle"]
  /\ req = [t \in Workers |-> NoReq]
  /\ loc = [t \in Workers |-> NoLocals]
  /\ res = NoRes
  /\ hist = [o \in OrderIds |-> NoDelta]

\* ------------------------------------------------------------------ POST /create
CartLines == [product_id : Products \cup {MissingProduct}, quantity : 1..MaxQty]
Carts == [{1} -> CartLines] \cup [{1, 2} -> CartLines]

\* ValidateItems, checking the stock of the first line only
RECURSIVE ValidateItemsFirstStockOnly(_, _, _)
ValidateItemsFirstStockOnly(items, i, orderItems) ==
  IF i > Len(items) THEN [ok |-> TRUE, orderItems |-> orderItems]
  ELSE LET item == items[i]
           productData == products[item.product_id]
       IN IF item.product_id \notin Products \/ ~productData.is_active
          THEN [ok |-> FALSE, response |-> Response(400, "Product not found")]
          ELSE IF i = 1 /\ productData.stock < item.quantity
          THEN [ok |-> FALSE, response |-> Response(400, "Insufficient stock")]
          ELSE ValidateItemsFirstStockOnly(items, i + 1,
                 Append(orderItems, [product_id |-> item.product_id,
                                     quantity |-> item.quantity,
                                     price |-> productData.price]))

\* the validation loop over items[i..]: the response of the first failing line, or
\* the orderItems built (the SELECTs of one transaction read one snapshot)
RECURSIVE ValidateItems(_, _, _)
ValidateItems(items, i, orderItems) ==
  IF i > Len(items) THEN [ok |-> TRUE, orderItems |-> orderItems]
  ELSE LET item == items[i]
           productData == products[item.product_id]
       IN IF item.product_id \notin Products \/ ~productData.is_active
          THEN [ok |-> FALSE, response |-> Response(400, "Product not found")]
          ELSE IF productData.stock < item.quantity
          THEN [ok |-> FALSE, response |-> Response(400, "Insufficient stock")]
          ELSE ValidateItems(items, i + 1,
                 Append(orderItems, [product_id |-> item.product_id,
                                     quantity |-> item.quantity,
                                     price |-> productData.price]))

\* TotalAmount, adding each line's price once whatever its quantity
RECURSIVE TotalAmountUnitPrices(_)
TotalAmountUnitPrices(orderItems) ==
  IF orderItems = <<>> THEN 0
  ELSE orderItems[1].price + TotalAmountUnitPrices(Tail(orderItems))

\* totalAmount += productData.price * item.quantity, over the lines
RECURSIVE TotalAmount(_)
TotalAmount(orderItems) ==
  IF orderItems = <<>> THEN 0
  ELSE orderItems[1].price * orderItems[1].quantity + TotalAmount(Tail(orderItems))

\* beginTransaction; the validation loop; INSERT INTO orders; orderId = insertId
CreateValidate(t, u, items) ==
  /\ pc[t] = "idle"
  /\ nextId \in OrderIds
  /\ LET v == ValidateItems(items, 1, <<>>)
     IN IF ~v.ok
        THEN /\ res' = v.response
             /\ UNCHANGED <<products, orders, order_items, nextId, rzp, plock, olock, pc, req, loc, hist>>
        ELSE /\ req' = [req EXCEPT ![t] = [op |-> "create", user_id |-> u, items |-> items]]
             /\ loc' = [loc EXCEPT ![t] = [NoLocals EXCEPT !.i = 1, !.orderItems = v.orderItems,
                                                          !.totalAmount = TotalAmount(v.orderItems),
                                                          !.orderId = nextId]]
             /\ nextId' = nextId + 1
             /\ olock' = [olock EXCEPT ![nextId] = t]
             /\ pc' = [pc EXCEPT ![t] = "items"]
             /\ UNCHANGED <<products, orders, order_items, rzp, plock, res, hist>>

\* CreateItem, taking one unit of stock whatever the quantity
CreateItemTakesOne(t) ==
  /\ pc[t] = "items"
  /\ LET item == loc[t].orderItems[loc[t].i]
     IN /\ plock[item.product_id] \in {0, t}
        /\ plock' = [plock EXCEPT ![item.product_id] = t]
        /\ loc' = [loc EXCEPT ![t] =
              [@ EXCEPT !.delta[item.product_id] = @ - 1, !.i = @ + 1]]
        /\ pc' = [pc EXCEPT ![t] = IF loc[t].i = Len(loc[t].orderItems) THEN "gateway" ELSE "items"]
  /\ UNCHANGED <<products, orders, order_items, nextId, rzp, olock, req, res, hist>>

\* one pass of: for (const item of orderItems) { INSERT order_items; UPDATE products SET stock = stock - ? }
CreateItem(t) ==
  /\ pc[t] = "items"
  /\ LET item == loc[t].orderItems[loc[t].i]
     IN /\ plock[item.product_id] \in {0, t}
        /\ plock' = [plock EXCEPT ![item.product_id] = t]
        /\ loc' = [loc EXCEPT ![t] =
              [@ EXCEPT !.delta[item.product_id] = @ - item.quantity, !.i = @ + 1]]
        /\ pc' = [pc EXCEPT ![t] = IF loc[t].i = Len(loc[t].orderItems) THEN "gateway" ELSE "items"]
  /\ UNCHANGED <<products, orders, order_items, nextId, rzp, olock, req, res, hist>>

\* razorpay.orders.create({amount, currency, receipt, notes}) resolves
CreateGatewayOk(t) ==
  /\ pc[t] = "gateway"
  /\ LET id == Cardinality(rzp) + 1
     IN /\ rzp' = rzp \cup {[id |-> id, amount |-> loc[t].totalAmount * 100,
                              order_id |-> loc[t].orderId, user_id |-> req[t].user_id]}
        /\ loc' = [loc EXCEPT ![t] = [@ EXCEPT !.razorpayOrder = id]]
  /\ pc' = [pc EXCEPT ![t] = "commit"]
  /\ UNCHANGED <<products, orders, order_items, nextId, plock, olock, req, res, hist>>

\* CreateGatewayFail without the rollback: the transaction's writes stay
CreateGatewayFailKeepsWrites(t) ==
  /\ pc[t] = "gateway"
  /\ products' = ApplyDelta(loc[t].delta)
  /\ orders' = [orders EXCEPT ![loc[t].orderId] =
        [user_id |-> req[t].user_id, total_amount |-> loc[t].totalAmount,
         payment_status |-> "pending", payment_id |-> "",
         order_status |-> "placed"]]
  /\ order_items' = [order_items EXCEPT ![loc[t].orderId] = loc[t].orderItems]
  /\ hist' = [hist EXCEPT ![loc[t].orderId] = StockOf(products)]
  /\ Finish(t, ServerError(t))
  /\ UNCHANGED <<nextId, rzp>>

\* razorpay.orders.create rejects: catch, rollback, 500
CreateGatewayFail(t) ==
  /\ pc[t] = "gateway"
  /\ Rollback(t, ServerError(t))

\* connection.commit(); res.status(201)
CreateCommit(t) ==
  /\ pc[t] = "commit"
  /\ products' = ApplyDelta(loc[t].delta)
  /\ orders' = [orders EXCEPT ![loc[t].orderId] =
        [user_id |-> req[t].user_id, total_amount |-> loc[t].totalAmount,
         payment_status |-> "pending", payment_id |-> "",
         order_status |-> "placed"]]
  /\ order_items' = [order_items EXCEPT ![loc[t].orderId] = loc[t].orderItems]
  /\ hist' = [hist EXCEPT ![loc[t].orderId] = StockOf(products)]
  /\ Finish(t, Response(201, "Order created successfully"))
  /\ UNCHANGED <<nextId, rzp>>

\* ------------------------------------------------------------------ POST /verify-payment
Signatures == {Hmac(k, o, p) : k \in {KeySecret, OtherKey}, o \in OrderIds, p \in PaymentIds}

\* UpdatePayment, leaving order_status as it is
UpdatePaymentKeepsStatus(ords, order_id, user_id, razorpay_payment_id) ==
  [o \in OrderIds |->
     IF o = order_id /\ ords[o].user_id = user_id
     THEN [ords[o] EXCEPT !.payment_status = "completed",
                          !.payment_id = razorpay_payment_id]
     ELSE ords[o]]

\* UpdatePayment, marking a payment that was already completed as refunded
UpdatePaymentReopens(ords, order_id, user_id, razorpay_payment_id) ==
  [o \in OrderIds |->
     IF o = order_id /\ ords[o].user_id = user_id
     THEN [ords[o] EXCEPT !.payment_status =
                             IF @ = "completed" THEN "refunded" ELSE "completed",
                          !.payment_id = razorpay_payment_id,
                          !.order_status = "confirmed"]
     ELSE ords[o]]

\* UpdatePayment, with WHERE order_id = ? alone
UpdatePaymentAnyUser(ords, order_id, user_id, razorpay_payment_id) ==
  [o \in OrderIds |->
     IF o = order_id /\ ords[o] # NoRow
     THEN [ords[o] EXCEPT !.payment_status = "completed",
                          !.payment_id = razorpay_payment_id,
                          !.order_status = "confirmed"]
     ELSE ords[o]]

\* UpdatePayment, marking as failed a payment that already carries the same reference
UpdatePaymentSecondFails(ords, order_id, user_id, razorpay_payment_id) ==
  [o \in OrderIds |->
     IF o = order_id /\ ords[o].user_id = user_id
     THEN IF ords[o].payment_id = razorpay_payment_id
          THEN [ords[o] EXCEPT !.payment_status = "failed"]
          ELSE [ords[o] EXCEPT !.payment_status = "completed",
                               !.payment_id = razorpay_payment_id,
                               !.order_status = "confirmed"]
     ELSE ords[o]]

\* UPDATE orders SET payment_status = ?, payment_id = ?, order_status = ?
\*   WHERE order_id = ? AND user_id = ?, on the table ords
UpdatePayment(ords, order_id, user_id, razorpay_payment_id) ==
  [o \in OrderIds |->
     IF o = order_id /\ ords[o].user_id = user_id
     THEN [ords[o] EXCEPT !.payment_status = "completed",
                          !.payment_id = razorpay_payment_id,
                          !.order_status = "confirmed"]
     ELSE ords[o]]

\* VerifyOutcome, comparing the references a signature was made over but not its key
VerifyOutcomeAnyKey(ords, u, order_id, razorpay_order_id, razorpay_payment_id, razorpay_signature) ==
  IF <<razorpay_order_id, razorpay_payment_id>> # <<razorpay_signature[2], razorpay_signature[3]>>
  THEN [res |-> Response(400, "Invalid payment signature"), orders |-> ords]
  ELSE [res |-> Response(200, "Payment verified successfully"),
        orders |-> UpdatePayment(ords, order_id, u, razorpay_payment_id)]

\* VerifyOutcome, refusing an order whose payment is already completed
VerifyOutcomeOnce(ords, u, order_id, razorpay_order_id, razorpay_payment_id, razorpay_signature) ==
  IF Hmac(KeySecret, razorpay_order_id, razorpay_payment_id) # razorpay_signature
  THEN [res |-> Response(400, "Invalid payment signature"), orders |-> ords]
  ELSE IF ords[order_id].user_id = u /\ ords[order_id].payment_status = "completed"
  THEN [res |-> Response(400, "Payment already verified"), orders |-> ords]
  ELSE [res |-> Response(200, "Payment verified successfully"),
        orders |-> UpdatePayment(ords, order_id, u, razorpay_payment_id)]

\* what the handler answers and leaves in the table orders, called on the table ords
VerifyOutcome(ords, u, order_id, razorpay_order_id, razorpay_payment_id, razorpay_signature) ==
  IF Hmac(KeySecret, razorpay_order_id, razorpay_payment_id) # razorpay_signature
  THEN [res |-> Response(400, "Invalid payment signature"), orders |-> ords]
  ELSE [res |-> Response(200, "Payment verified successfully"),
        orders |-> UpdatePayment(ords, order_id, u, razorpay_payment_id)]

\* the whole handler: the signature check, then one autocommit UPDATE, which waits while
\* the row is locked by a transaction
VerifyPayment(t, u, order_id, razorpay_order_id, razorpay_payment_id, razorpay_signature) ==
  /\ pc[t] = "idle"
  /\ LET out == VerifyOutcome(orders, u, order_id, razorpay_order_id, razorpay_payment_id,
                              razorpay_signature)
     IN /\ out.res.status = 200 => olock[order_id] = 0
        /\ orders' = out.orders
        /\ res' = out.res
  /\ UNCHANGED <<products, order_items, nextId, rzp, plock, olock, pc, req, loc, hist>>

\* ------------------------------------------------------------------ PUT /:id/cancel
\* CancelRead, taking a processing order for cancellable
CancelReadAllowsProcessing(t, u, id) ==
  /\ pc[t] = "idle"
  /\ IF orders[id].user_id # u
     THEN /\ res' = Response(404, "Order not found")
          /\ UNCHANGED <<pc, req, loc>>
     ELSE IF orders[id].order_status \notin {"placed", "confirmed", "processing"}
     THEN /\ res' = Response(400, "Order cannot be cancelled at this stage")
          /\ UNCHANGED <<pc, req, loc>>
     ELSE /\ req' = [req EXCEPT ![t] = [op |-> "cancel", user_id |-> u, id |-> id]]
          /\ loc' = [loc EXCEPT ![t] = [NoLocals EXCEPT !.i = 1, !.orderItems = order_items[id]]]
          /\ pc' = [pc EXCEPT ![t] = "restore"]
          /\ UNCHANGED res
  /\ UNCHANGED <<products, orders, order_items, nextId, rzp, plock, olock, hist>>

\* CancelRead, with WHERE order_id = ? alone
CancelReadAnyUser(t, u, id) ==
  /\ pc[t] = "idle"
  /\ IF orders[id] = NoRow
     THEN /\ res' = Response(404, "Order not found")
          /\ UNCHANGED <<pc, req, loc>>
     ELSE IF orders[id].order_status \notin {"placed", "confirmed"}
     THEN /\ res' = Response(400, "Order cannot be cancelled at this stage")
          /\ UNCHANGED <<pc, req, loc>>
     ELSE /\ req' = [req EXCEPT ![t] = [op |-> "cancel", user_id |-> u, id |-> id]]
          /\ loc' = [loc EXCEPT ![t] = [NoLocals EXCEPT !.i = 1, !.orderItems = order_items[id]]]
          /\ pc' = [pc EXCEPT ![t] = "restore"]
          /\ UNCHANGED res
  /\ UNCHANGED <<products, orders, order_items, nextId, rzp, plock, olock, hist>>

\* beginTransaction; SELECT * FROM orders WHERE order_id = ? AND user_id = ?; the two
\* checks; SELECT product_id, quantity FROM order_items WHERE order_id = ?
CancelRead(t, u, id) ==
  /\ pc[t] = "idle"
  /\ IF orders[id].user_id # u
     THEN /\ res' = Response(404, "Order not found")
          /\ UNCHANGED <<pc, req, loc>>
     ELSE IF orders[id].order_status \notin {"placed", "confirmed"}
     THEN /\ res' = Response(400, "Order cannot be cancelled at this stage")
          /\ UNCHANGED <<pc, req, loc>>
     ELSE /\ req' = [req EXCEPT ![t] = [op |-> "cancel", user_id |-> u, id |-> id]]
          /\ loc' = [loc EXCEPT ![t] = [NoLocals EXCEPT !.i = 1, !.orderItems = order_items[id]]]
          /\ pc' = [pc EXCEPT ![t] = "restore"]
          /\ UNCHANGED res
  /\ UNCHANGED <<products, orders, order_items, nextId, rzp, plock, olock, hist>>

\* CancelRestore, giving back one unit of stock whatever the quantity
CancelRestoreGivesOne(t) ==
  /\ pc[t] = "restore"
  /\ LET item == loc[t].orderItems[loc[t].i]
     IN /\ plock[item.product_id] \in {0, t}
        /\ plock' = [plock EXCEPT ![item.product_id] = t]
        /\ loc' = [loc EXCEPT ![t] =
              [@ EXCEPT !.delta[item.product_id] = @ + 1, !.i = @ + 1]]
        /\ pc' = [pc EXCEPT ![t] = IF loc[t].i = Len(loc[t].orderItems) THEN "status" ELSE "restore"]
  /\ UNCHANGED <<products, orders, order_items, nextId, rzp, olock, req, res, hist>>

\* CancelRestore, crediting a product no higher than its stock before the order was placed
CancelRestoreCapped(t) ==
  /\ pc[t] = "restore"
  /\ LET item == loc[t].orderItems[loc[t].i]
         p == item.product_id
         room == hist[req[t].id][p] - (products[p].stock + loc[t].delta[p])
         give == IF room >= item.quantity THEN item.quantity
                 ELSE IF room > 0 THEN room ELSE 0
     IN /\ plock[p] \in {0, t}
        /\ plock' = [plock EXCEPT ![p] = t]
        /\ loc' = [loc EXCEPT ![t] = [@ EXCEPT !.delta[p] = @ + give, !.i = @ + 1]]
        /\ pc' = [pc EXCEPT ![t] = IF loc[t].i = Len(loc[t].orderItems) THEN "status" ELSE "restore"]
  /\ UNCHANGED <<products, orders, order_items, nextId, rzp, olock, req, res, hist>>

\* one pass of: for (const item of orderItems) { UPDATE products SET stock = stock + ? }
CancelRestore(t) ==
  /\ pc[t] = "restore"
  /\ LET item == loc[t].orderItems[loc[t].i]
     IN /\ plock[item.product_id] \in {0, t}
        /\ plock' = [plock EXCEPT ![item.product_id] = t]
        /\ loc' = [loc EXCEPT ![t] =
              [@ EXCEPT !.delta[item.product_id] = @ + item.quantity, !.i = @ + 1]]
        /\ pc' = [pc EXCEPT ![t] = IF loc[t].i = Len(loc[t].orderItems) THEN "status" ELSE "restore"]
  /\ UNCHANGED <<products, orders, order_items, nextId, rzp, olock, req, res, hist>>

\* UPDATE orders SET order_status = 'cancelled' WHERE order_id = ?
CancelStatus(t) ==
  /\ pc[t] = "status"
  /\ olock[req[t].id] \in {0, t}
  /\ olock' = [olock EXCEPT ![req[t].id] = t]
  /\ pc' = [pc EXCEPT ![t] = "ccommit"]
  /\ UNCHANGED <<products, orders, order_items, nextId, rzp, plock, req, loc, res, hist>>

\* CancelCommit, also marking the payment refunded
CancelCommitRefunds(t) ==
  /\ pc[t] = "ccommit"
  /\ products' = ApplyDelta(loc[t].delta)
  /\ orders' = [orders EXCEPT ![req[t].id].order_status = "cancelled",
                              ![req[t].id].payment_status = "refunded"]
  /\ Finish(t, Response(200, "Order cancelled successfully"))
  /\ UNCHANGED <<order_items, nextId, rzp, hist>>

\* connection.commit(); res.json(success)
CancelCommit(t) ==
  /\ pc[t] = "ccommit"
  /\ products' = ApplyDelta(loc[t].delta)
  /\ orders' = [orders EXCEPT ![req[t].id].order_status = "cancelled"]
  /\ Finish(t, Response(200, "Order cancelled successfully"))
  /\ UNCHANGED <<order_items, nextId, rzp, hist>>

\* ------------------------------------------------------------------ PUT /admin/:id/status
\* UPDATE orders SET order_status = ? WHERE order_id = ?   (autocommit)
AdminStatus(id, status) ==
  /\ orders[id] # NoRow
  /\ olock[id] = 0
  /\ orders' = [orders EXCEPT ![id].order_status = status]
  /\ UNCHANGED <<products, order_items, nextId, rzp, plock, olock, pc, req, loc, res, hist>>

\* ------------------------------------------------------------------ DELETE /api/products/:id
\* UPDATE products SET is_active = false WHERE product_id = ?   (autocommit)
DeleteProduct(id) ==
  /\ plock[id] = 0
  /\ products[id].is_active
  /\ products' = [products EXCEPT ![id].is_active = FALSE]
  /\ UNCHANGED <<orders, order_items, nextId, rzp, plock, olock, pc, req, loc, res, hist>>

\* ------------------------------------------------------------------ PUT /api/products/:id
\* the prices and stocks an admin sets
EditPrices == {PriceCowMilk, PriceBuffaloMilk}
EditStocks == 0..MaxStock

\* UpdateProduct, also rewriting the price on the line items of the product (a live join)
UpdateProductRepricesLines(id, price, stock) ==
  /\ plock[id] = 0
  /\ products' = [products EXCEPT ![id].price = price, ![id].stock = stock]
  /\ order_items' = [o \in OrderIds |->
        [i \in DOMAIN order_items[o] |->
           IF order_items[o][i].product_id = id
           THEN [order_items[o][i] EXCEPT !.price = price]
           ELSE order_items[o][i]]]
  /\ UNCHANGED <<orders, nextId, rzp, plock, olock, pc, req, loc, res, hist>>

\* SELECT * FROM products WHERE product_id = ?; UPDATE products SET name = ?, description = ?,
\* price = ?, stock = ?, category = ?, unit = ? WHERE product_id = ?   (autocommit)
UpdateProduct(id, price, stock) ==
  /\ plock[id] = 0
  /\ products' = [products EXCEPT ![id].price = price, ![id].stock = stock]
  /\ UNCHANGED <<orders, order_items, nextId, rzp, plock, olock, pc, req, loc, res, hist>>

\* ------------------------------------------------------------------ failures inside a transaction
\* the row a worker's next UPDATE needs is locked by another transaction
Blocked(t) ==
  \/ /\ pc[t] \in {"items", "restore"}
     /\ plock[loc[t].orderItems[loc[t].i].product_id] \notin {0, t}
  \/ /\ pc[t] = "status"
     /\ olock[req[t].id] \notin {0, t}

\* the waiting statement throws (lock wait timeout, deadlock): catch, rollback, 500
LockWaitFail(t) ==
  /\ Blocked(t)
  /\ Rollback(t, ServerError(t))

\* connection.commit() throws: catch, rollback, 500
CommitFail(t) ==
  /\ pc[t] \in {"commit", "ccommit"}
  /\ Rollback(t, ServerError(t))

\* QueryFail, the statements already run staying in the table
QueryFailKeepsIncrements(t) ==
  /\ pc[t] \in {"items", "restore", "status"}
  /\ products' = ApplyDelta(loc[t].delta)
  /\ Finish(t, ServerError(t))
  /\ UNCHANGED <<orders, order_items, nextId, rzp, hist>>

\* the next statement of a transaction throws (connection lost, server error): catch,
\* rollback, 500
QueryFail(t) ==
  /\ pc[t] \in {"items", "restore", "status"}
  /\ Rollback(t, ServerError(t))

\* ------------------------------------------------------------------ Next
\* the carts of the two-worker specification: one line, of product 1
RaceCarts == [{1} -> [product_id : {1}, quantity : 1..MaxQty]]

\* POST /create by a worker of W, for a user of U with a cart of C, while fewer than
\* n orders were inserted
Create(W, U, C, n) ==
  \E t \in W :
    \/ \E u \in U, items \in C : nextId <= n /\ CreateValidate(t, u, items)
    \/ CreateItem(t)
    \/ CreateGatewayOk(t)
    \/ CreateGatewayFail(t)
    \/ CreateCommit(t)

Verify(W) ==
  \E t \in W, u \in Users, id \in OrderIds, o \in OrderIds, p \in PaymentIds, sig \in Signatures :
    VerifyPayment(t, u, id, o, p, sig)

\* PUT /:id/cancel by a worker of W; a repeated cancellation adds to the stock each time, so
\* requests are taken while no stock is above MaxStock
Cancel(W) ==
  \E t \in W :
    \/ \E u \in Users, id \in OrderIds :
         (\A p \in Products : products[p].stock <= MaxStock) /\ CancelRead(t, u, id)
    \/ CancelRestore(t)
    \/ CancelStatus(t)
    \/ CancelCommit(t)

Failure(W) ==
  \E t \in W :
    \/ LockWaitFail(t)
    \/ CommitFail(t)

\* the carts whose lines all name a product that has a row
KnownCarts == {items \in Carts : \A i \in DOMAIN items : items[i].product_id \in Products}

\* the life of one order, one worker: the requests run one after the other
Next ==
  \/ Create({1}, Users, KnownCarts, 1)
  \/ Verify({1})
  \/ Cancel({1})
  \/ CommitFail(1)
  \/ \E id \in OrderIds, status \in OrderStatuses : AdminStatus(id, status)

Spec == Init /\ [][Next]_vars

\* order placement alone, one worker, every cart, products being deactivated
NextPlace ==
  \/ Create({1}, Users, Carts, 1)
  \/ CommitFail(1)
  \/ \E id \in Products : DeleteProduct(id)

SpecPlace == Init /\ [][NextPlace]_vars

\* two workers: the requests interleave statement by statement
NextConc ==
  \/ Create(Workers, {1}, RaceCarts, 2)
  \/ Verify(Workers)
  \/ Cancel(Workers)
  \/ Failure(Workers)

\* product 2 is not ordered there: its stock stays what the products table was seeded with
InitConc == Init /\ products[2].stock = MaxStock

SpecConc == InitConc /\ [][NextConc]_vars

\* the life of one order of product 1 while an admin edits that product
NextEdit ==
  \/ Create({1}, {1}, RaceCarts, 1)
  \/ Verify({1})
  \/ Cancel({1})
  \/ CommitFail(1)
  \/ \E id \in OrderIds, status \in OrderStatuses : AdminStatus(id, status)
  \/ \E price \in EditPrices, stock \in EditStocks : UpdateProduct(1, price, stock)

SpecEdit == InitConc /\ [][NextEdit]_vars

\* the statements a create handler runs by itself once it may: the driver and the event
\* loop carry them out.  razorpay.orders.create is awaited with no timer beside it, so
\* nothing obliges the gateway's answer, CreateGatewayOk or CreateGatewayFail, to come.
HandlerSteps(t) == CreateItem(t) \/ CreateCommit(t)

SpecLive == Init /\ [][NextPlace]_vars /\ WF_vars(HandlerSteps(1))

\* the carts of one line of each product
TwoLineCarts ==
  {<<[product_id |-> 1, quantity |-> q1], [product_id |-> 2, quantity |-> q2]>> :
     q1 \in 1..MaxQty, q2 \in 1..MaxQty}

\* one order of two lines, cancelled by two workers, any statement failing
NextCancel ==
  \/ Create({1}, {1}, TwoLineCarts, 1)
  \/ Cancel(Workers)
  \/ Failure(Workers)
  \/ \E t \in Workers : QueryFail(t)

SpecCancel == Init /\ [][NextCancel]_vars

\* two workers on a fully stocked shop
InitStock == Init /\ \A p \in Products : products[p].stock = MaxStock

SpecStock == InitStock /\ [][NextConc]_vars

\* ------------------------------------------------------------------ properties
\* the quantity of product p over the lines of a cart or of an order
RECURSIVE Qty(_, _)
Qty(lines, p) ==
  IF lines = <<>> THEN 0
  ELSE (IF lines[1].product_id = p THEN lines[1].quantity ELSE 0) + Qty(Tail(lines), p)

Committed == {o \in OrderIds : orders[o] # NoRow}

\* C1: in every reachable state every product's stock is >= 0.
C1_StockNeverNegative ==
  \A p \in Products : products[p].stock >= 0

\* C2: of two concurrent placeOrder calls for one product whose stock is enough for either
\* order alone but not for both, at most one commits.  Under SpecConc an order still
\* "placed" was never cancelled, so while both orders are placed the stock the two calls
\* started from is the present stock plus the two quantities; run one after the other, the
\* second call would have failed its stock check.
C2_AtMostOneOfTwoCommits ==
  \A p \in Products :
    LET q1 == Qty(order_items[1], p)
        q2 == Qty(order_items[2], p)
        before == products[p].stock + q1 + q2
    IN ~ /\ Committed = {1, 2}
         /\ orders[1].order_status = "placed" /\ orders[2].order_status = "placed"
         /\ q1 > 0 /\ q2 > 0
         /\ q1 <= before /\ q2 <= before
         /\ before < q1 + q2

\* C3: when placeOrder commits (the cart passed validation, the gateway call succeeded),
\* each product's stock goes down by exactly the quantity ordered of it, and the order has
\* one line item per cart entry, in cart order, priced at the product's price.
C3_PlaceOrderEffect ==
  [][\A t \in Workers :
       CreateCommit(t) =>
         LET id == loc[t].orderId
             items == req[t].items
         IN /\ \A p \in Products :
                 products'[p].stock = products[p].stock - Qty(items, p)
            /\ orders[id] = NoRow /\ orders'[id] # NoRow
            /\ Len(order_items'[id]) = Len(items)
            /\ \A i \in DOMAIN items :
                 order_items'[id][i] = [product_id |-> items[i].product_id,
                                        quantity |-> items[i].quantity,
                                        price |-> products[items[i].product_id].price]]_vars

C3_Witness ==
  /\ res = Response(201, "Order created successfully")
  /\ Len(order_items[1]) = 2
  /\ order_items[1][1].product_id # order_items[1][2].product_id
  /\ \E i \in {1, 2} : order_items[1][i].quantity = MaxQty

\* a cart line naming a missing or inactive product, or more than the product's stock
BadLine(item) ==
  \/ item.product_id \notin Products
  \/ ~products[item.product_id].is_active
  \/ products[item.product_id].stock < item.quantity

\* C4: a placeOrder whose cart has a bad line, at any position, fails with 400, changes no
\* product, and creates no order row and no line item.
C4_AllOrNothing ==
  [][\A t \in Workers, u \in Users, items \in Carts :
       (CreateValidate(t, u, items) /\ \E i \in DOMAIN items : BadLine(items[i])) =>
          /\ res'.status = 400
          /\ res'.message \in {"Product not found", "Insufficient stock"}
          /\ UNCHANGED <<products, orders, order_items, plock, olock, pc, loc>>]_vars

C4_Witness ==
  /\ res = Response(400, "Insufficient stock")
  /\ products[1].stock = MaxStock /\ products[1].is_active
  /\ products[2].stock = 0
  /\ Committed = {}

\* every committed order has a gateway order created for it
IntentForEveryOrder ==
  \A o \in Committed : \E z \in rzp : z.order_id = o

\* C5: when the gateway call fails the transaction is rolled back (no order row, no line
\* item, no stock change) and the caller gets an error; and in every state each committed
\* order has a gateway order that was created for it.
C5_GatewayFailureRollsBack ==
  /\ []IntentForEveryOrder
  /\ [][\A t \in Workers :
          CreateGatewayFail(t) =>
            /\ UNCHANGED <<products, orders, order_items, rzp>>
            /\ res'.status = 500
            /\ \A p \in Products : plock'[p] # t]_vars

C5_Witness ==
  /\ res = Response(500, "Server error creating order")
  /\ nextId = 2
  /\ Committed = {}
  /\ rzp = {}

\* C6: a cancelOrder that commits while the stock is what the order's placeOrder left
\* (nothing else changed it in between) returns every product's stock to its value before
\* that placeOrder and sets order_status to cancelled.
C6_CancelRestoresStock ==
  [][\A t \in Workers :
       (/\ CancelCommit(t)
        /\ \A p \in Products :
             products[p].stock = hist[req[t].id][p] - Qty(order_items[req[t].id], p)) =>
          /\ StockOf(products') = hist[req[t].id]
          /\ orders'[req[t].id].order_status = "cancelled"]_vars

C6_Witness ==
  /\ res = Response(200, "Order cancelled successfully")
  /\ orders[1].order_status = "cancelled"
  /\ orders[1].payment_status = "completed"
  /\ Len(order_items[1]) = 2
  /\ StockOf(products) = hist[1]

\* C7: cancelOrder by the owner of an order that is processing, shipped, delivered or
\* cancelled fails with 400 (InvalidState) and changes neither an order nor a stock.
C7_CancelInvalidState ==
  [][\A t \in Workers, u \in Users, id \in OrderIds :
       (/\ CancelRead(t, u, id)
        /\ orders[id].user_id = u
        /\ orders[id].order_status \in {"processing", "shipped", "delivered", "cancelled"}) =>
          /\ res' = Response(400, "Order cannot be cancelled at this stage")
          /\ UNCHANGED <<products, orders, order_items, plock, olock, pc, loc>>]_vars

C7_Witness ==
  /\ res = Response(400, "Order cannot be cancelled at this stage")
  /\ orders[1].order_status = "shipped"

\* C8: verifyPayment with a signature other than the HMAC of the two references under the
\* shared secret fails with 400 (InvalidSignature) and leaves every order as it was.
C8_TamperedSignature ==
  \A u \in Users, id \in OrderIds, o \in OrderIds, p \in PaymentIds, sig \in Signatures :
    sig # Hmac(KeySecret, o, p) =>
      VerifyOutcome(orders, u, id, o, p, sig) =
        [res |-> Response(400, "Invalid payment signature"), orders |-> orders]

C8_Witness ==
  /\ res = Response(400, "Invalid payment signature")
  /\ Committed = {1}
  /\ orders[1].payment_status = "pending"
  /\ orders[1].order_status = "placed"

\* C9: verifyPayment by the order's owner with a valid signature sets payment_status to
\* completed, payment_id to the payment reference and order_status to confirmed on the
\* order, in the one UPDATE, changes no other order, and answers 200.
C9_VerifyCompletes ==
  \A u \in Users, id \in OrderIds, o \in OrderIds, p \in PaymentIds :
    orders[id].user_id = u =>
      LET out == VerifyOutcome(orders, u, id, o, p, Hmac(KeySecret, o, p))
      IN /\ out.orders[id] = [orders[id] EXCEPT !.payment_status = "completed",
                                                !.payment_id = p,
                                                !.order_status = "confirmed"]
         /\ \A x \in OrderIds \ {id} : out.orders[x] = orders[x]
         /\ out.res = Response(200, "Payment verified successfully")

C9_Witness ==
  /\ res = Response(200, "Payment verified successfully")
  /\ \E o \in Committed :
       /\ orders[o].payment_status = "completed"
       /\ orders[o].payment_id \in PaymentIds
       /\ orders[o].order_status = "confirmed"

\* C10: verifyPayment is idempotent: a second call with the same valid arguments, made on
\* the table the first call left, leaves the table as the first call left it, and answers
\* 200 like the first.
C10_VerifyIdempotent ==
  \A u \in Users, id \in OrderIds, o \in OrderIds, p \in PaymentIds :
    LET sig == Hmac(KeySecret, o, p)
        once == VerifyOutcome(orders, u, id, o, p, sig)
        twice == VerifyOutcome(once.orders, u, id, o, p, sig)
    IN /\ twice.orders = once.orders
       /\ twice.res = Response(200, "Payment verified successfully")

C10_Witness ==
  /\ res = Response(200, "Payment verified successfully")
  /\ pc[1] = "idle"
  /\ 1 \in Committed
  /\ orders[1].payment_status = "completed"
  /\ orders[1].payment_id = "pay_A"
  /\ orders[1].order_status = "confirmed"
  /\ VerifyOutcome(orders, orders[1].user_id, 1, 1, "pay_A",
                   Hmac(KeySecret, 1, "pay_A")).orders = orders

\* C11: (second part) no reachable state has an order that is not cancelled while the
\* stock reserved for it was credited back.  While one order alone is committed, the stock
\* was changed only by its placement (from hist) and by its cancellations, so its
\* reservation is held exactly when the stock is hist minus its quantities.
C11_NoLiveOrderCredited ==
  \A o \in OrderIds :
    (Committed = {o} /\ orders[o].order_status # "cancelled") =>
      \A p \in Products : products[p].stock = hist[o][p] - Qty(order_items[o], p)

\* C12: every step that makes an order cancelled starts from placed or confirmed.
C12_CancelledOnlyFromPlacedOrConfirmed ==
  [][\A o \in OrderIds :
       (/\ orders[o] # NoRow
        /\ orders[o].order_status # "cancelled"
        /\ orders'[o].order_status = "cancelled") =>
          orders[o].order_status \in {"placed", "confirmed"}]_vars

\* C13: every step that changes an order's payment_status takes it from pending to
\* completed or failed; a completed payment_status is never changed; a new order starts
\* pending.
C13_PaymentStatusSteps ==
  [][\A o \in OrderIds :
       /\ (orders[o] = NoRow /\ orders'[o] # NoRow) => orders'[o].payment_status = "pending"
       /\ (orders[o] # NoRow /\ orders'[o].payment_status # orders[o].payment_status) =>
             /\ orders[o].payment_status = "pending"
             /\ orders'[o].payment_status \in {"completed", "failed"}]_vars

C13_Witness ==
  /\ Committed = {1}
  /\ orders[1].payment_status = "completed"
  /\ orders[1].order_status = "cancelled"
  /\ res = Response(200, "Payment verified successfully")

\* C14: a cancelOrder that commits adds to each product's stock exactly the quantity of
\* the product on the order's line items, whatever the stock is at that moment and whatever
\* changed it since the order was placed.
C14_CancelCreditsLineQuantities ==
  [][\A t \in Workers :
       CancelCommit(t) =>
         \A p \in Products :
           products'[p].stock = products[p].stock + Qty(order_items[req[t].id], p)]_vars

C14_Witness ==
  /\ res = Response(200, "Order cancelled successfully")
  /\ Committed = {1}
  /\ orders[1].order_status = "cancelled"
  /\ products[1].stock > hist[1][1]

\* the sum of quantity x price over the first n lines
RECURSIVE LineSum(_, _)
LineSum(lines, n) ==
  IF n = 0 THEN 0 ELSE lines[n].quantity * lines[n].price + LineSum(lines, n - 1)

\* C15: an order's total_amount is the sum over its line items of quantity x stored price,
\* from the moment the handler computes it to the committed row; the stored prices are
\* the prices in the products table (the request carries no amount).
C15_TotalIsSumOfLines ==
  /\ \A o \in Committed :
       orders[o].total_amount = LineSum(order_items[o], Len(order_items[o]))
  /\ \A t \in Workers :
       req[t].op = "create" =>
         /\ loc[t].totalAmount = LineSum(loc[t].orderItems, Len(loc[t].orderItems))
         /\ \A i \in DOMAIN loc[t].orderItems :
              loc[t].orderItems[i].price = products[loc[t].orderItems[i].product_id].price

C15_Witness ==
  /\ Committed = {1}
  /\ Len(order_items[1]) = 2
  /\ order_items[1][1].product_id # order_items[1][2].product_id
  /\ order_items[1][1].quantity # order_items[1][2].quantity
  /\ orders[1].total_amount = LineSum(order_items[1], 2)

\* C16: once an order is committed, no step changes its line items or its total_amount.
C16_LineItemsFrozen ==
  [][\A o \in OrderIds :
       orders[o] # NoRow =>
         /\ order_items'[o] = order_items[o]
         /\ orders'[o] # NoRow
         /\ orders'[o].total_amount = orders[o].total_amount]_vars

C16_Witness ==
  /\ Committed = {1}
  /\ order_items[1][1].product_id = 1
  /\ order_items[1][1].price # products[1].price
  /\ orders[1].total_amount = order_items[1][1].price * order_items[1][1].quantity

\* C17: placeOrder always ends with a response: a handler waiting for the gateway's answer
\* leaves that wait (timing out if no answer comes) and becomes idle again, its transaction
\* rolled back or committed and its locks released.
C17_PlaceOrderTerminates ==
  (pc[1] = "gateway") ~> (pc[1] = "idle" /\ \A p \in Products : plock[p] # 1)

\* C18: verifyPayment with a valid signature by a user who does not own the order named
\* by orderId changes no order (the UPDATE's WHERE clause carries the user_id).
C18_VerifyByNonOwner ==
  \A u \in Users, id \in OrderIds, o \in OrderIds, p \in PaymentIds :
    orders[id].user_id # u =>
      VerifyOutcome(orders, u, id, o, p, Hmac(KeySecret, o, p)).orders = orders

C18_Witness ==
  /\ res = Response(200, "Payment verified successfully")
  /\ Committed = {1}
  /\ orders[1].payment_status = "pending"
  /\ orders[1].payment_id = ""
  /\ orders[1].order_status = "placed"

\* C19: cancelOrder for an order id with no row, or whose row belongs to another user, fails
\* with 404 (OrderNotFound) and changes neither an order nor a stock.
C19_CancelOrderNotFound ==
  [][\A t \in Workers, u \in Users, id \in OrderIds :
       (orders[id].user_id # u /\ CancelRead(t, u, id)) =>
          /\ res' = Response(404, "Order not found")
          /\ UNCHANGED <<products, orders, order_items, plock, olock, pc, loc>>]_vars

C19_Witness ==
  /\ res = Response(404, "Order not found")
  /\ Committed = {1}
  /\ orders[1].order_status = "placed"
  /\ pc[1] = "idle"

\* C20: of two verifyPayment callbacks with the same valid arguments, run by two workers in
\* either order, the one whose UPDATE comes second finds the order as the first left it
\* (completed, the payment reference, confirmed), leaves every order as it is, and answers
\* 200: the order ends as one callback alone leaves it.
C20_ConcurrentVerifies ==
  \A u \in Users, id \in OrderIds, o \in OrderIds, p \in PaymentIds :
    (/\ orders[id].user_id = u
     /\ orders[id].payment_status = "completed"
     /\ orders[id].payment_id = p
     /\ orders[id].order_status = "confirmed") =>
       VerifyOutcome(orders, u, id, o, p, Hmac(KeySecret, o, p)) =
         [res |-> Response(200, "Payment verified successfully"), orders |-> orders]

C20_Witness ==
  /\ res = Response(200, "Payment verified successfully")
  /\ Committed = {1, 2}
  /\ \A o \in OrderIds :
       /\ orders[o].payment_status = "completed"
       /\ orders[o].payment_id = "pay_A"
       /\ orders[o].order_status = "confirmed"
  /\ pc = [t \in Workers |-> "idle"]

\* C21: (placeOrder part) the response to a gateway failure differs from the response to a
\* persistence failure: at the step where the gateway answers, what the handler would have
\* sent had the gateway failed is not what it sends if the commit now fails.
C21_FailureKindsDistinct ==
  [][\A t \in Workers : CreateGatewayOk(t) => ServerError(t) # ServerError(t)']_vars

\* the payment fields of the orders
PaymentFields(ords) ==
  [o \in OrderIds |-> IF ords[o] = NoRow THEN <<>>
                       ELSE <<ords[o].payment_status, ords[o].payment_id>>]

\* C22: cancelOrder and the order status update leave the payment_status and payment_id of
\* every order as they are; every step that changes them on an existing order is a
\* verifyPayment.
C22_PaymentFieldsOnlyByVerify ==
  [][/\ \A t \in Workers :
          (CancelRestore(t) \/ CancelStatus(t) \/ CancelCommit(t)) =>
             PaymentFields(orders') = PaymentFields(orders)
     /\ \A id \in OrderIds, status \in OrderStatuses :
          AdminStatus(id, status) => PaymentFields(orders') = PaymentFields(orders)
     /\ \A o \in OrderIds :
          (orders[o] # NoRow /\ PaymentFields(orders')[o] # PaymentFields(orders)[o]) =>
             res' = Response(200, "Payment verified successfully")]_vars

C22_Witness ==
  /\ Committed = {1}
  /\ orders[1].order_status = "cancelled"
  /\ orders[1].payment_status = "completed"
  /\ orders[1].payment_id = "pay_A"
  /\ res = Response(200, "Order cancelled successfully")
  /\ order_items[1][1].price # products[1].price

\* C23: a cart with two lines of one product, each quantity within the stock and their sum
\* above it, is refused: no committed order has such lines (hist holds the stock the order
\* was placed on).
C23_DuplicateLinesRefused ==
  \A o \in Committed :
    ~ /\ Len(order_items[o]) = 2
      /\ order_items[o][1].product_id = order_items[o][2].product_id
      /\ LET stock == hist[o][order_items[o][1].product_id]
         IN /\ order_items[o][1].quantity <= stock
            /\ order_items[o][2].quantity <= stock
            /\ order_items[o][1].quantity + order_items[o][2].quantity > stock

\* C24: cancelOrder is atomic.  A cancel that fails at any statement or at the commit leaves
\* every stock and every order as they were and releases its locks; and a stock rises only
\* in the step that commits a cancel, which sets the order cancelled and credits all its
\* lines, so no one sees a stock restored while the order is not cancelled.
C24_CancelAtomic ==
  [][/\ \A t \in Workers :
          (req[t].op = "cancel" /\ (QueryFail(t) \/ LockWaitFail(t) \/ CommitFail(t))) =>
             /\ UNCHANGED <<products, orders, order_items>>
             /\ res' = Response(500, "Server error cancelling order")
             /\ \A p \in Products : plock'[p] # t
             /\ \A o \in OrderIds : olock'[o] # t
     /\ (\E p \in Products : products'[p].stock > products[p].stock) =>
          \E t \in Workers :
            /\ CancelCommit(t)
            /\ orders'[req[t].id].order_status = "cancelled"
            /\ \A p \in Products :
                 products'[p].stock = products[p].stock + Qty(order_items[req[t].id], p)]_vars

C24_Witness ==
  /\ res = Response(500, "Server error cancelling order")
  /\ Committed = {1}
  /\ orders[1].order_status = "placed"
  /\ \A p \in Products : products[p].stock = hist[1][p] - Qty(order_items[1], p)
  /\ pc = [t \in Workers |-> "idle"]

\* the quantity of product p on the line items of the orders of S that are not cancelled
RECURSIVE Reserved(_, _)
Reserved(S, p) ==
  IF S = {} THEN 0
  ELSE LET o == CHOOSE x \in S : TRUE
       IN (IF orders[o].order_status # "cancelled" THEN Qty(order_items[o], p) ELSE 0)
            + Reserved(S \ {o}, p)

\* C25: stock conservation: for each product, the stock plus the quantities on the orders
\* that are not cancelled is the initial stock.
C25_StockConservation ==
  \A p \in Products : products[p].stock + Reserved(Committed, p) = MaxStock

\* C26: verifyPayment completes an order only on a gateway order that placeOrder created
\* for that order: a valid triple for the gateway order of one committed order of a user
\* does not complete another order of that user.
C26_IntentBoundToOrder ==
  \A u \in Users, id \in OrderIds, o \in OrderIds, p \in PaymentIds :
    (/\ orders[id].user_id = u
     /\ orders[id].payment_status = "pending"
     /\ \E z \in rzp : z.id = o /\ z.user_id = u /\ z.order_id \in Committed) =>
       LET out == VerifyOutcome(orders, u, id, o, p, Hmac(KeySecret, o, p))
       IN out.orders[id].payment_status = "completed" =>
            \E z \in rzp : z.id = o /\ z.order_id = id

\* C27: verifyPayment with a valid signature changes order_status only of an order that
\* is placed.
C27_VerifyOnlyWhenPlaced ==
  \A u \in Users, id \in OrderIds, o \in OrderIds, p \in PaymentIds :
    (orders[id].user_id = u /\ orders[id].order_status # "placed") =>
      VerifyOutcome(orders, u, id, o, p, Hmac(KeySecret, o, p)).orders[id].order_status
        = orders[id].order_status

\* C28: two cancelOrder calls on one placed order credit its quantities once in total.
\* While one order alone is committed and its payment is pending, it was never verified,
\* so it went from placed to cancelled at most: its stock is never above the stock it was
\* placed on.
C28_CreditedOnce ==
  \A o \in OrderIds :
    (Committed = {o} /\ orders[o].payment_status = "pending") =>
      \A p \in Products : products[p].stock <= hist[o][p]

\* C29: verifyPayment does not answer success when orderId names no order of the caller
\* (the signed references being those of a gateway order that exists).
C29_SuccessOnlyIfMatched ==
  \A u \in Users, id \in OrderIds, o \in OrderIds, p \in PaymentIds :
    (orders[id].user_id # u /\ \E z \in rzp : z.id = o) =>
      VerifyOutcome(orders, u, id, o, p, Hmac(KeySecret, o, p)).res.status # 200

\* C30: every gateway order refers to an order that is committed, or whose placeOrder is
\* still on its way to the commit.
C30_NoOrphanIntent ==
  \A z \in rzp :
    \/ z.order_id \in Committed
    \/ \E t \in Workers : pc[t] = "commit" /\ loc[t].orderId = z.order_id

====
